---- MODULE Spec2Model ----
(***************************************************************************)
(* Model of the BibTeX importer of academic-admin.                         *)
(*                                                                         *)
(* The repository holds two copies of the importer: the one the command    *)
(* line runs (academic/cli.py) and the one the tests import                *)
(* (academic/import_bibtex.py).  Both are modelled; the variable `module`  *)
(* says which one a run executes.                                          *)
(*                                                                         *)
(* A Python str is a sequence of one-character strings, so that split,     *)
(* strip, zfill, title, the regular expressions of slugify and len() are   *)
(* computed as the code computes them.  A citation record is a function    *)
(* whose DOMAIN is the set of fields the record has: an absent field is    *)
(* absent, not empty.                                                      *)
(***************************************************************************)
EXTENDS Integers, Sequences, FiniteSets, TLC

VARIABLES
    fs,        \* the content directory: bundle path -> (file name -> content)
    clock,     \* datetime.utcnow(), one tick per parse_bibtex_entry call
    module,    \* "cli" or "import_bibtex": whose import_bibtex is running
    args,      \* keyword arguments of the running import_bibtex call
    entries,   \* bib_database.entries not yet handed to parse_bibtex_entry
    status,    \* "idle", "running", "returned" or "raised" (the import_bibtex call)
    exc,       \* the exception that left import_bibtex, "none" if none
    result,    \* outcome of the latest parse_bibtex_entry call
    fs0,       \* history: fs when the latest import_bibtex call began
    probe      \* argument and value of the latest call of a pure helper

vars == <<fs, clock, module, args, entries, status, exc, result, fs0, probe>>

-----------------------------------------------------------------------------
(* Characters and the str methods the importer uses.                       *)

DigitChars == {"0", "1", "2", "3", "4", "5", "6", "7", "8", "9"}
LowerSeq == <<"a", "b", "c", "d", "e", "f", "g", "h", "i", "j", "k", "l", "m",
              "n", "o", "p", "q", "r", "s", "t", "u", "v", "w", "x", "y", "z">>
UpperSeq == <<"A", "B", "C", "D", "E", "F", "G", "H", "I", "J", "K", "L", "M",
              "N", "O", "P", "Q", "R", "S", "T", "U", "V", "W", "X", "Y", "Z">>
LowerChars == {LowerSeq[i] : i \in 1..26}
UpperChars == {UpperSeq[i] : i \in 1..26}
SpaceChars == {" "}

IsDigit(c) == c \in DigitChars
IsLower(c) == c \in LowerChars
IsUpper(c) == c \in UpperChars
IsAlnum(c) == IsDigit(c) \/ IsLower(c) \/ IsUpper(c)

\* str.lower() and str.upper() of one character
LowerChar(c) == IF IsUpper(c) THEN LowerSeq[CHOOSE i \in 1..26 : UpperSeq[i] = c] ELSE c
UpperChar(c) == IF IsLower(c) THEN UpperSeq[CHOOSE i \in 1..26 : LowerSeq[i] = c] ELSE c

RECURSIVE Lower(_)
Lower(s) == IF s = <<>> THEN <<>> ELSE <<LowerChar(Head(s))>> \o Lower(Tail(s))

\* s.replace(old, new) for one-character old and new
RECURSIVE Replace(_, _, _)
Replace(s, old, new) ==
    IF s = <<>> THEN <<>>
    ELSE <<IF Head(s) = old THEN new ELSE Head(s)>> \o Replace(Tail(s), old, new)

\* s.strip(): leading and trailing whitespace removed
RECURSIVE LStrip(_)
LStrip(s) == IF s # <<>> /\ Head(s) \in SpaceChars THEN LStrip(Tail(s)) ELSE s
RECURSIVE RStrip(_)
RStrip(s) ==
    IF s # <<>> /\ s[Len(s)] \in SpaceChars THEN RStrip(SubSeq(s, 1, Len(s) - 1)) ELSE s
Strip(s) == RStrip(LStrip(s))

\* s.split(sep) for a one-character sep: always at least one part
RECURSIVE SplitFrom(_, _, _, _)
SplitFrom(s, sep, i, cur) ==
    IF i > Len(s) THEN <<cur>>
    ELSE IF s[i] = sep THEN <<cur>> \o SplitFrom(s, sep, i + 1, <<>>)
    ELSE SplitFrom(s, sep, i + 1, Append(cur, s[i]))
Split(s, sep) == SplitFrom(s, sep, 1, <<>>)

\* sep.join(parts)
RECURSIVE Join(_, _)
Join(parts, sep) ==
    IF parts = <<>> THEN <<>>
    ELSE IF Len(parts) = 1 THEN parts[1]
    ELSE parts[1] \o <<sep>> \o Join(Tail(parts), sep)

Contains(s, c) == \E i \in 1..Len(s) : s[i] = c

\* s.zfill(width): zeros go after a leading sign
RECURSIVE Zeros(_)
Zeros(n) == IF n <= 0 THEN <<>> ELSE <<"0">> \o Zeros(n - 1)
Zfill(s, width) ==
    IF Len(s) >= width THEN s
    ELSE IF s # <<>> /\ Head(s) \in {"+", "-"}
         THEN <<Head(s)>> \o Zeros(width - Len(s)) \o Tail(s)
    ELSE Zeros(width - Len(s)) \o s

\* s.title(): a letter that follows a letter is lowered, any other raised
RECURSIVE TitleFrom(_, _, _)
TitleFrom(s, i, prevCased) ==
    IF i > Len(s) THEN <<>>
    ELSE LET c == s[i]
             cased == IsLower(c) \/ IsUpper(c)
         IN  <<IF prevCased THEN LowerChar(c) ELSE UpperChar(c)>>
               \o TitleFrom(s, i + 1, cased)
Title(s) == TitleFrom(s, 1, FALSE)

\* str(n) for a natural number
DigitSeq == <<"0", "1", "2", "3", "4", "5", "6", "7", "8", "9">>
RECURSIVE Str(_)
Str(n) == IF n < 10 THEN <<DigitSeq[n + 1]>> ELSE Str(n \div 10) \o Str(n % 10)

-----------------------------------------------------------------------------
(* slugify                                                                 *)

\* re.sub(r"(\D+)(\d+)", r"\1\-\2", s): every place where a non-digit is
\* directly followed by a digit receives the two characters `\-` (the
\* template's unknown escape \- is left as it is).
RECURSIVE DelimitNonNumberNumber(_, _)
DelimitNonNumberNumber(s, i) ==
    IF i > Len(s) THEN <<>>
    ELSE (IF i < Len(s) /\ ~IsDigit(s[i]) /\ IsDigit(s[i + 1])
          THEN <<s[i], "\\", "-">> ELSE <<s[i]>>)
         \o DelimitNonNumberNumber(s, i + 1)

\* re.sub(r"(\d+)(\D+)", r"\1\-\2", s)
RECURSIVE DelimitNumberNonNumber(_, _)
DelimitNumberNonNumber(s, i) ==
    IF i > Len(s) THEN <<>>
    ELSE (IF i < Len(s) /\ IsDigit(s[i]) /\ ~IsDigit(s[i + 1])
          THEN <<s[i], "\\", "-">> ELSE <<s[i]>>)
         \o DelimitNumberNonNumber(s, i + 1)

\* re.sub(r"((?<=[a-z])[A-Z]|(?<!\A)[A-Z](?=[a-z]))", r"\-\1", s)
CamelMatch(s, i) ==
    /\ IsUpper(s[i])
    /\ \/ i > 1 /\ IsLower(s[i - 1])
       \/ i > 1 /\ i < Len(s) /\ IsLower(s[i + 1])
RECURSIVE DelimitCamelcase(_, _)
DelimitCamelcase(s, i) ==
    IF i > Len(s) THEN <<>>
    ELSE (IF CamelMatch(s, i) THEN <<"\\", "-", s[i]>> ELSE <<s[i]>>)
         \o DelimitCamelcase(s, i + 1)

\* "".join(c for c in s if c.isalnum() or c in good_symbols).strip()
RECURSIVE KeepGood(_)
KeepGood(s) ==
    IF s = <<>> THEN <<>>
    ELSE (IF IsAlnum(Head(s)) \/ Head(s) = "-" THEN <<Head(s)>> ELSE <<>>)
         \o KeepGood(Tail(s))

\* re.sub("-{2,}", "-", s)
RECURSIVE CollapseHyphens(_, _)
CollapseHyphens(s, i) ==
    IF i > Len(s) THEN <<>>
    ELSE (IF s[i] = "-" /\ i > 1 /\ s[i - 1] = "-" THEN <<>> ELSE <<s[i]>>)
         \o CollapseHyphens(s, i + 1)

slugify(s, lower) ==
    LET s1 == Replace(Replace(Replace(s, ".", "-"), "_", "-"), ":", "-")
        s2 == DelimitNonNumberNumber(s1, 1)
        s3 == DelimitNumberNonNumber(s2, 1)
        s4 == DelimitCamelcase(s3, 1)
        s5 == Strip(KeepGood(s4))
        s6 == CollapseHyphens(s5, 1)
    IN  IF lower THEN Lower(s6) ELSE s6

-----------------------------------------------------------------------------
(* month2number and the date of an entry                                   *)

\* list(calendar.month_abbr): index 0 holds the empty string
MonthAbbr == << <<>>,
                <<"J", "a", "n">>, <<"F", "e", "b">>, <<"M", "a", "r">>,
                <<"A", "p", "r">>, <<"M", "a", "y">>, <<"J", "u", "n">>,
                <<"J", "u", "l">>, <<"A", "u", "g">>, <<"S", "e", "p">>,
                <<"O", "c", "t">>, <<"N", "o", "v">>, <<"D", "e", "c">> >>

Min(a, b) == IF a <= b THEN a ELSE b

\* list.index(x): position of the first equal element, counted from 0
ListIndex(list, x) == (CHOOSE i \in 1..Len(list) :
                          list[i] = x /\ \A j \in 1..(i - 1) : list[j] # x) - 1

\* A call either returns a value or raises: exc names the exception.
Returns(v) == [exc |-> "none", value |-> v]
Raises(e) == [exc |-> e, value |-> <<>>]

\* `raise log.error(...)` raises None, which Python turns into a TypeError.
month2number(month) ==
    IF Len(month) <= 2
    THEN Returns(Zfill(month, 2))
    ELSE LET stripped == Strip(month)
             month_abbr == Title(SubSeq(stripped, 1, Min(3, Len(stripped))))
         IN  IF \E i \in 1..Len(MonthAbbr) : MonthAbbr[i] = month_abbr
             THEN Returns(Zfill(Str(ListIndex(MonthAbbr, month_abbr)), 2))
             ELSE Raises("TypeError")

Has(entry, field) == field \in DOMAIN entry

\* year, month, day of parse_bibtex_entry, up to the log.error of an empty year
EntryDate(entry) ==
    LET dateparts == IF Has(entry, "date") THEN Split(entry["date"], "-") ELSE <<>>
        n == Len(dateparts)
        year1 == IF n \in {1, 2, 3} THEN dateparts[1] ELSE <<>>
        month1 == IF n \in {2, 3} THEN dateparts[2] ELSE <<"0", "1">>
        day1 == IF n = 3 THEN dateparts[3] ELSE <<"0", "1">>
        useMonth == Has(entry, "month") /\ month1 = <<"0", "1">>
        m2n == IF useMonth THEN month2number(entry["month"]) ELSE Returns(month1)
        year2 == IF Has(entry, "year") /\ year1 = <<>> THEN entry["year"] ELSE year1
    IN  IF m2n.exc # "none" THEN Raises(m2n.exc)
        ELSE Returns([year |-> year2, month |-> m2n.value, day |-> day1])

-----------------------------------------------------------------------------
(* Publication types                                                       *)

\* str(member.value) of academic/cli.py's PublicationType: the trailing comma
\* of `Uncategorized = 0,` makes that member's value the tuple (0,).
PublicationType ==
    [Uncategorized |-> <<"(", "0", ",", ")">>,
     ConferencePaper |-> Str(1), JournalArticle |-> Str(2), Preprint |-> Str(3),
     Report |-> Str(4), Book |-> Str(5), BookSection |-> Str(6),
     Thesis |-> Str(7), Patent |-> Str(8)]

\* str(member.value) of academic/publication_type.py, which import_bibtex.py uses
PublicationTypeModule ==
    [Uncategorized |-> Str(0),
     ConferencePaper |-> Str(1), JournalArticle |-> Str(2), Preprint |-> Str(3),
     Report |-> Str(4), Book |-> Str(5), BookSection |-> Str(6),
     Thesis |-> Str(7), Patent |-> Str(8)]

PUB_TYPES ==
    [article |-> "JournalArticle", book |-> "Book", conference |-> "ConferencePaper",
     inbook |-> "BookSection", incollection |-> "BookSection",
     inproceedings |-> "ConferencePaper", manual |-> "Report",
     mastersthesis |-> "Thesis", misc |-> "Uncategorized", patent |-> "Patent",
     phdthesis |-> "Thesis", proceedings |-> "Uncategorized", report |-> "Report",
     thesis |-> "Thesis", techreport |-> "Report", unpublished |-> "Preprint"]

\* PUB_TYPES.get(entry["ENTRYTYPE"], PublicationType.Uncategorized)
PubTypeOf(entrytype) ==
    IF entrytype \in DOMAIN PUB_TYPES THEN PUB_TYPES[entrytype] ELSE "Uncategorized"

\* [str(pubtype.value)]
publication_types(mod, entrytype) ==
    IF mod = "cli" THEN <<PublicationType[PubTypeOf(entrytype)]>>
    ELSE <<PublicationTypeModule[PubTypeOf(entrytype)]>>

-----------------------------------------------------------------------------
(* The featured option                                                     *)

FeaturedKey == <<"f", "e", "a", "t", "u", "r", "e", "d">>

\* The loop over entry["options"].split(","); option.split("=") into k, v
\* raises ValueError unless the option holds exactly one "=", and the except
\* clause leaves featured_from_bibtex at the caller's default.
RECURSIVE ScanOptions(_, _, _)
ScanOptions(options, i, featured) ==
    IF i > Len(options) THEN featured
    ELSE LET option == options[i]
             kv == Split(option, "=")
         IN  IF Contains(option, "=")
             THEN IF Len(kv) # 2 THEN featured
                  ELSE IF Strip(kv[1]) = FeaturedKey THEN Strip(kv[2]) # <<>>
                  ELSE ScanOptions(options, i + 1, featured)
             ELSE IF Strip(option) = FeaturedKey THEN TRUE
             ELSE ScanOptions(options, i + 1, featured)

featured_from_bibtex(entry, featured) ==
    IF Has(entry, "options") THEN ScanOptions(Split(entry["options"], ","), 1, featured)
    ELSE featured

-----------------------------------------------------------------------------
(* Authors, tags, venue                                                    *)

\* bibtexparser's splitname is not part of the repository: the cleaned author
\* list is an uninterpreted term over the author string.
clean_bibtex_authors(author_str) == <<"clean_bibtex_authors", author_str>>

\* tag.lower().capitalize()
Capitalize(s) == IF s = <<>> THEN <<>> ELSE <<UpperChar(Head(s))>> \o Lower(Tail(s))

RECURSIVE CleanTags(_, _)
CleanTags(tags, normalize) ==
    IF tags = <<>> THEN <<>>
    ELSE <<IF normalize THEN Capitalize(Lower(Strip(Head(tags)))) ELSE Strip(Head(tags))>>
         \o CleanTags(Tail(tags), normalize)
clean_bibtex_tags(s, normalize) == CleanTags(Split(s, ","), normalize)

Emph(s) == <<"*">> \o s \o <<"*">>
publication(entry) ==
    IF Has(entry, "booktitle") THEN Emph(entry["booktitle"])
    ELSE IF Has(entry, "journal") THEN Emph(entry["journal"])
    ELSE IF Has(entry, "publisher") THEN Emph(entry["publisher"])
    ELSE IF Has(entry, "institution") THEN Emph(entry["institution"])
    ELSE <<>>

-----------------------------------------------------------------------------
(* Front matter                                                            *)

\* A front-matter document is a function from its keys to their values.
EmptyFM == [k \in {} |-> <<>>]
Put(fm, key, value) == [k \in DOMAIN fm \cup {key} |-> IF k = key THEN value ELSE fm[k]]

\* date.isoformat("T") + "Z" of the clock reading
Timestamp(now) == <<"T">> \o Str(now) \o <<"Z">>

DateString(d) == Join(<<d.year, d.month, d.day>>, "-")

\* The keys both importers set after the dates: authors ... doi
CommonFields(mod, entry, a, fm) ==
    LET authors == IF Has(entry, "author") THEN entry["author"]
                   ELSE IF Has(entry, "editor") THEN entry["editor"] ELSE ""
        f1 == IF authors # "" THEN Put(fm, "authors", clean_bibtex_authors(authors)) ELSE fm
        f2 == Put(f1, "publication_types", publication_types(mod, entry["ENTRYTYPE"]))
        f3 == Put(f2, "abstract", IF Has(entry, "abstract") THEN entry["abstract"] ELSE <<>>)
        f4 == Put(f3, "featured", featured_from_bibtex(entry, a.featured))
        f5 == Put(f4, "publication", publication(entry))
        f6 == IF Has(entry, "keywords")
              THEN Put(f5, "tags", clean_bibtex_tags(entry["keywords"], a.normalize)) ELSE f5
        f7 == IF Has(entry, "url") THEN Put(f6, "url_pdf", entry["url"]) ELSE f6
    IN  IF Has(entry, "doi") THEN Put(f7, "doi", entry["doi"]) ELSE f7

\* academic/cli.py: the metadata dict; month2number runs before entry['title']
metadata(entry, a, timestamp) ==
    LET d == EntryDate(entry)
    IN  IF d.exc # "none" THEN Raises(d.exc)
        ELSE IF ~Has(entry, "title") THEN Raises("KeyError")
        ELSE Returns(CommonFields("cli", entry, a,
                 Put(Put(Put(EmptyFM, "title", entry["title"]),
                         "date", DateString(d.value)),
                     "publishDate", timestamp)))

\* academic/import_bibtex.py: page.fm, starting from the loaded document
page_fm(entry, a, loaded, timestamp) ==
    LET d == EntryDate(entry)
    IN  IF ~Has(entry, "title") THEN Raises("KeyError")
        ELSE IF d.exc # "none" THEN Raises(d.exc)
        ELSE LET f1 == Put(Put(loaded, "title", entry["title"]), "date", DateString(d.value))
                 f2 == IF "publishDate" \in DOMAIN f1 THEN f1
                       ELSE IF a.publish_date_from_bibtex
                            THEN Put(f1, "publishDate", f1["date"])
                       ELSE Put(f1, "publishDate", timestamp)
             IN  Returns(CommonFields("import_bibtex", entry, a, f2))

-----------------------------------------------------------------------------
(* The content directory                                                   *)

EmptyDir == [f \in {} |-> <<>>]

\* BundlePath as it would be if the ID's symbols were dropped, not delimited
BundlePathStripped(entry, a) == <<a.pub_dir, Lower(KeepGood(entry["ID"]))>>

\* bundle_path = f"content/{pub_dir}/{slugify(entry['ID'])}"
BundlePath(entry, a) == <<a.pub_dir, slugify(entry["ID"], TRUE)>>

IsDir(files, path) == path \in DOMAIN files
IsFile(files, path, name) == IsDir(files, path) /\ name \in DOMAIN files[path]

\* Path(bundle_path).mkdir(parents=True, exist_ok=True)
Mkdir(files, path) ==
    IF IsDir(files, path) THEN files
    ELSE [p \in DOMAIN files \cup {path} |-> IF p = path THEN EmptyDir ELSE files[p]]

\* open(path/name, "w") and write: the file is created or replaced
WriteFile(files, path, name, content) ==
    [files EXCEPT ![path] = [f \in DOMAIN files[path] \cup {name} |->
                                IF f = name THEN content ELSE files[path][f]]]

\* `hugo new <markdown_path> --kind publication`: hugo, when it runs, creates
\* the file from the site's archetype and refuses to replace an existing file.
HugoOutcomes == {"failed", "plain", "dated"}
HugoDate == <<"H">>
Archetype(hugo) == IF hugo = "dated" THEN Put(EmptyFM, "publishDate", HugoDate) ELSE EmptyFM
HugoNew(files, path, hugo) ==
    IF hugo = "failed" \/ IsFile(files, path, "index.md") THEN files
    ELSE WriteFile(files, path, "index.md", Archetype(hugo))

\* EditableFM.load: the front matter of the file, an empty one if there is no file
EditableFM_load(files, path, name) ==
    IF IsFile(files, path, name) THEN files[path][name] ELSE EmptyFM

\* EditableFM.dump: the front matter written back to the file it was loaded from
EditableFM_dump(files, path, name, fm) == WriteFile(files, path, name, fm)

-----------------------------------------------------------------------------
(* parse_bibtex_entry                                                      *)

\* Where an operating-system failure strikes a call, if anywhere.
IOFaults == {"ok", "mkdir", "cite", "markdown"}

Outcome(files, kind, e, fm, entry, path) ==
    [fs |-> files,
     res |-> [kind |-> kind, exc |-> e, fm |-> fm, entry |-> entry, path |-> path]]

\* SkipExisting as it would be if it looked for the page instead of the directory
SkipExistingPage(a, files, path) == ~a.overwrite /\ IsFile(files, path, "index.md")

\* `if not overwrite and os.path.isdir(bundle_path)`: the entry is skipped
SkipExisting(a, files, path) == ~a.overwrite /\ IsDir(files, path)

\* CreateBundleDir as it would be without its `if not dry_run`
CreateBundleDirAlways(a, files, path) == Mkdir(files, path)

\* `if not dry_run: Path(bundle_path).mkdir(...)`
CreateBundleDir(a, files, path) == IF a.dry_run THEN files ELSE Mkdir(files, path)

\* `if not dry_run: with open(cite_path, "w") ...: f.write(writer.write(db))`
SaveCitation(a, files, path, entry) ==
    IF a.dry_run THEN files ELSE WriteFile(files, path, "cite.bib", entry)

\* `if not dry_run: subprocess.call(f"{hugo} new {markdown_path} ...")`
NewPage(a, files, path, hugo) == IF a.dry_run THEN files ELSE HugoNew(files, path, hugo)

\* academic/cli.py; an IOError of the last write is caught and logged
cli_parse_bibtex_entry(entry, a, files, now, io) ==
    LET path == BundlePath(entry, a)
        timestamp == Timestamp(now)
        made == CreateBundleDir(a, files, path)
        cited == SaveCitation(a, made, path, entry)
        md == metadata(entry, a, timestamp)
    IN  IF SkipExisting(a, files, path)
        THEN Outcome(files, "skipped", "none", EmptyFM, entry, path)
        ELSE IF ~a.dry_run /\ io = "mkdir"
        THEN Outcome(files, "raised", "OSError", EmptyFM, entry, path)
        ELSE IF ~a.dry_run /\ io = "cite"
        THEN Outcome(made, "raised", "OSError", EmptyFM, entry, path)
        ELSE IF md.exc # "none"
        THEN Outcome(cited, "raised", md.exc, EmptyFM, entry, path)
        ELSE IF a.dry_run \/ io = "markdown"
        THEN Outcome(cited, "returned", "none", md.value, entry, path)
        ELSE Outcome(WriteFile(cited, path, "index.md", md.value),
                     "returned", "none", md.value, entry, path)

\* academic/import_bibtex.py; an IOError of page.dump() is caught and logged
parse_bibtex_entry(entry, a, files, now, io, hugo) ==
    LET path == BundlePath(entry, a)
        timestamp == Timestamp(now)
        made == CreateBundleDir(a, files, path)
        cited == SaveCitation(a, made, path, entry)
        created == NewPage(a, cited, path, hugo)
        page == page_fm(entry, a, EditableFM_load(created, path, "index.md"), timestamp)
    IN  IF SkipExisting(a, files, path)
        THEN Outcome(files, "skipped", "none", EmptyFM, entry, path)
        ELSE IF ~a.dry_run /\ io = "mkdir"
        THEN Outcome(files, "raised", "OSError", EmptyFM, entry, path)
        ELSE IF ~a.dry_run /\ io = "cite"
        THEN Outcome(made, "raised", "OSError", EmptyFM, entry, path)
        ELSE IF page.exc # "none"
        THEN Outcome(created, "raised", page.exc, EmptyFM, entry, path)
        ELSE IF a.dry_run \/ io = "markdown"
        THEN Outcome(created, "returned", "none", page.value, entry, path)
        ELSE Outcome(EditableFM_dump(created, path, "index.md", page.value),
                     "returned", "none", page.value, entry, path)

-----------------------------------------------------------------------------
(* Bounds and inputs                                                       *)

MaxBatch == 2      \* longest BibTeX file, in entries
MaxClock == 3      \* parse_bibtex_entry calls in one behaviour

Modules == {"cli", "import_bibtex"}

\* The records of the BibTeX files the runs import.
Doe2020 ==
    [ID |-> <<"D", "o", "e", "2", "0", "2", "0">>, ENTRYTYPE |-> "article",
     title |-> <<"T">>, author |-> "Doe, Jane", year |-> <<"2", "0", "2", "0">>]
BadMonth ==
    [ID |-> <<"a", ".", "b">>, ENTRYTYPE |-> "book", title |-> <<"U">>,
     year |-> <<"2", "0", "1", "9">>, month |-> <<"F", "o", "o">>]
NoTitle ==
    [ID |-> <<"x", "Y">>, ENTRYTYPE |-> "misc", year |-> <<"2", "0", "1", "8">>]
BatchEntries == {Doe2020, BadMonth, NoTitle}

\* The entries of one file have distinct IDs.
Batches ==
    {b \in UNION {[1..n -> BatchEntries] : n \in 1..MaxBatch} :
        \A i, j \in DOMAIN b : i # j => b[i]["ID"] # b[j]["ID"]}

\* cli.py's import_bibtex has no publish_date_from_bibtex parameter.
ArgsOf(mod) ==
    {a \in [pub_dir : {"publication"}, featured : {FALSE}, overwrite : BOOLEAN,
            normalize : {FALSE}, dry_run : BOOLEAN, publish_date_from_bibtex : BOOLEAN] :
        mod = "cli" => ~a.publish_date_from_bibtex}

NoResult == [kind |-> "none", exc |-> "none", fm |-> EmptyFM, entry |-> EmptyFM,
             path |-> <<>>]
NoProbe == [fn |-> "none"]
NoArgs == [pub_dir |-> "publication", featured |-> FALSE, overwrite |-> FALSE,
           normalize |-> FALSE, dry_run |-> FALSE, publish_date_from_bibtex |-> FALSE]

-----------------------------------------------------------------------------
(* The import                                                              *)

Init ==
    /\ fs = [p \in {} |-> EmptyDir]
    /\ clock = 0
    /\ module = "none"
    /\ args = NoArgs
    /\ entries = <<>>
    /\ status = "idle"
    /\ exc = "none"
    /\ result = NoResult
    /\ fs0 = [p \in {} |-> EmptyDir]
    /\ probe = NoProbe

\* import_bibtex is called on a path that is not a file: AcademicError.
ImportMissingFile ==
    /\ status = "idle"
    /\ \E mod \in Modules : \E a \in ArgsOf(mod) :
          /\ module' = mod
          /\ args' = a
    /\ status' = "raised"
    /\ exc' = "AcademicError"
    /\ entries' = <<>>
    /\ result' = NoResult
    /\ fs0' = fs
    /\ UNCHANGED <<fs, clock, probe>>

\* import_bibtex is called on a BibTeX file, which bibtexparser loads.
ImportBibtex ==
    /\ status = "idle"
    /\ \E mod \in Modules : \E a \in ArgsOf(mod) : \E batch \in Batches :
          /\ module' = mod
          /\ args' = a
          /\ entries' = batch
    /\ status' = "running"
    /\ exc' = "none"
    /\ result' = NoResult
    /\ fs0' = fs
    /\ UNCHANGED <<fs, clock, probe>>

\* One turn of `for entry in bib_database.entries`: an exception of
\* parse_bibtex_entry leaves the loop and import_bibtex.
LoopTurn(out) ==
    /\ fs' = out.fs
    /\ result' = out.res
    /\ clock' = clock + 1
    /\ entries' = Tail(entries)
    /\ status' = IF out.res.kind = "raised" THEN "raised" ELSE status
    /\ exc' = IF out.res.kind = "raised" THEN out.res.exc ELSE exc
    /\ UNCHANGED <<module, args, fs0, probe>>

CliParseBibtexEntry ==
    /\ status = "running" /\ module = "cli"
    /\ entries # <<>>
    /\ clock < MaxClock
    /\ \E io \in (IF args.dry_run THEN {"ok"} ELSE IOFaults) :
          LoopTurn(cli_parse_bibtex_entry(Head(entries), args, fs, clock, io))

ParseBibtexEntry ==
    /\ status = "running" /\ module = "import_bibtex"
    /\ entries # <<>>
    /\ clock < MaxClock
    /\ \E io \in (IF args.dry_run THEN {"ok"} ELSE IOFaults) :
       \E hugo \in (IF args.dry_run THEN {"failed"} ELSE HugoOutcomes) :
          LoopTurn(parse_bibtex_entry(Head(entries), args, fs, clock, io, hugo))

\* The loop ran out of entries: import_bibtex returns.
ImportReturn ==
    /\ status = "running"
    /\ entries = <<>>
    /\ status' = "returned"
    /\ UNCHANGED <<fs, clock, module, args, entries, exc, result, fs0, probe>>

\* The command ends: of the state only the content directory (and the time)
\* lives on to the next command.
Exit ==
    /\ status \in {"returned", "raised"}
    /\ status' = "idle"
    /\ module' = "none"
    /\ args' = NoArgs
    /\ entries' = <<>>
    /\ exc' = "none"
    /\ result' = NoResult
    /\ fs0' = fs
    /\ UNCHANGED <<fs, clock, probe>>

Next ==
    \/ ImportMissingFile
    \/ ImportBibtex
    \/ CliParseBibtexEntry
    \/ ParseBibtexEntry
    \/ ImportReturn
    \/ Exit

Spec == Init /\ [][Next]_vars

-----------------------------------------------------------------------------
(* One entry at a time: the inputs of the field-by-field properties        *)

MaxOptions == 2    \* options in an options field
MaxSlugLen == 3    \* characters of a slugify argument
MaxMonthLen == 4   \* characters of a month2number argument

\* All sequences over S of length 0..n
RECURSIVE SeqsUpTo(_, _)
SeqsUpTo(S, n) ==
    IF n = 0 THEN {<<>>}
    ELSE LET shorter == SeqsUpTo(S, n - 1)
         IN  shorter \cup {Append(q, x) : q \in {r \in shorter : Len(r) = n - 1}, x \in S}

Absent == <<"absent">>
Field(name, v) == IF v = Absent THEN [k \in {} |-> <<>>] ELSE (name :> v)

BaseEntry(entrytype) ==
    [ID |-> <<"K", "e", "y", "1">>, ENTRYTYPE |-> entrytype, title |-> <<"T">>]

\* date, month and year fields
DateValues == {Absent, <<>>, <<"2", "0", "1", "9">>, <<"2", "0", "1", "9", "-", "0", "3">>, <<"2", "0", "1", "9", "-", "0", "3", "-", "1", "5">>, <<"2", "0", "1", "9", "-", "3", "-", "5">>, <<"2", "0", "1", "9", "-", "0", "1", "-", "1", "5">>, <<"-", "0", "3">>, <<"2", "0", "1", "9", "-", "0", "1">>, <<"2", "0", "1", "9", "-", "0", "3", "-", "1", "5", "-", "x">>}
MonthValues == {Absent, <<"M", "a", "r">>, <<"3">>, <<"1", "2">>, <<"F", "o", "o">>, <<"m", "a", "r", "c", "h">>}
YearValues == {Absent, <<"2", "0", "2", "1">>}
DateEntries ==
    {BaseEntry("article") @@ Field("date", d) @@ Field("month", m) @@ Field("year", y) :
        d \in DateValues, m \in MonthValues, y \in YearValues}

\* options fields: up to MaxOptions options joined by ","
OptionValues == {<<"f", "e", "a", "t", "u", "r", "e", "d">>, <<"f", "e", "a", "t", "u", "r", "e", "d", "=", "t", "r", "u", "e">>, <<"f", "e", "a", "t", "u", "r", "e", "d", "=", "f", "a", "l", "s", "e">>, <<"o", "t", "h", "e", "r", "=", "x">>, <<"o", "t", "h", "e", "r", "=", "a", "=", "b">>, <<" ", "f", "e", "a", "t", "u", "r", "e", "d", " ", "=", " ", "f", "a", "l", "s", "e", " ">>, <<"o", "t", "h", "e", "r">>}
OptionsFields ==
    {Absent} \cup {Join(os, ",") : os \in SeqsUpTo(OptionValues, MaxOptions) \ {<<>>}}
OptionEntries == {BaseEntry("book") @@ Field("options", o) : o \in OptionsFields}

\* entry-type keywords: those of the table, and some that are not in it
EntryTypes == DOMAIN PUB_TYPES \cup {"foobar", "Article", "online"}
TypeEntries ==
    {BaseEntry(t) @@ Field("year", y) : t \in EntryTypes, y \in YearValues}

FieldArgs(featureds) ==
    [pub_dir : {"publication"}, featured : featureds, overwrite : BOOLEAN,
     normalize : {FALSE}, dry_run : BOOLEAN, publish_date_from_bibtex : {FALSE}]

\* import_bibtex has loaded a file of one entry into an empty content directory.
InitWith(entrySet, featureds) ==
    /\ fs = [p \in {} |-> EmptyDir]
    /\ clock = 0
    /\ \E mod \in Modules : \E a \in FieldArgs(featureds) : \E e \in entrySet :
          /\ module = mod
          /\ args = a
          /\ entries = <<e>>
    /\ status = "running"
    /\ exc = "none"
    /\ result = NoResult
    /\ fs0 = [p \in {} |-> EmptyDir]
    /\ probe = NoProbe

NextEntry ==
    \/ CliParseBibtexEntry
    \/ ParseBibtexEntry
    \/ ImportReturn

InitDate == InitWith(DateEntries, {FALSE})
SpecDate == InitDate /\ [][NextEntry]_vars

InitFeatured == InitWith(OptionEntries, BOOLEAN)
SpecFeatured == InitFeatured /\ [][NextEntry]_vars

InitPubType == InitWith(TypeEntries, {FALSE})
SpecPubType == InitPubType /\ [][NextEntry]_vars

\* A file whose entries have distinct IDs, some of which slugify alike, is
\* imported for real (no dry run) into an empty content directory.
KeyedEntry(id) ==
    [ID |-> id, ENTRYTYPE |-> "article", title |-> <<"T">>, year |-> <<"2", "0", "2", "0">>]
KeyedEntries ==
    {KeyedEntry(<<"a", ".", "b">>), KeyedEntry(<<"a", "_", "b">>),
     KeyedEntry(<<"a", "B">>), KeyedEntry(<<"a", "b">>)}
KeyedBatches ==
    {b \in UNION {[1..n -> KeyedEntries] : n \in 1..MaxBatch} :
        \A i, j \in DOMAIN b : i # j => b[i]["ID"] # b[j]["ID"]}

InitBundles ==
    /\ fs = [p \in {} |-> EmptyDir]
    /\ clock = 0
    /\ module \in Modules
    /\ args \in [pub_dir : {"publication"}, featured : {FALSE}, overwrite : BOOLEAN,
                 normalize : {FALSE}, dry_run : {FALSE},
                 publish_date_from_bibtex : {FALSE}]
    /\ entries \in KeyedBatches
    /\ status = "running"
    /\ exc = "none"
    /\ result = NoResult
    /\ fs0 = [p \in {} |-> EmptyDir]
    /\ probe = NoProbe
SpecBundles == InitBundles /\ [][NextEntry]_vars

-----------------------------------------------------------------------------
(* The helpers on their own: slugify and month2number                      *)

SlugChars == {"a", "B", "1", ".", "_", "-", " ", "!"}
MonthChars == {"m", "A", "r", " ", "1"}

InitHelper(p) ==
    /\ fs = [q \in {} |-> EmptyDir]
    /\ clock = 0
    /\ module = "none"
    /\ args = NoArgs
    /\ entries = <<>>
    /\ status = "idle"
    /\ exc = "none"
    /\ result = NoResult
    /\ fs0 = [q \in {} |-> EmptyDir]
    /\ probe \in p

UnchangedImport == UNCHANGED <<fs, clock, module, args, entries, status, exc, result, fs0>>

\* slugify(s, lower) is called, then slugify is called on what it returned.
InitSlugify ==
    InitHelper({[fn |-> "slugify", calls |-> 0, s |-> x, lower |-> l, out |-> x] :
                   x \in SeqsUpTo(SlugChars, MaxSlugLen), l \in BOOLEAN})

Slugify ==
    /\ probe.fn = "slugify" /\ probe.calls = 0
    /\ probe' = [probe EXCEPT !.calls = 1, !.out = slugify(probe.s, probe.lower)]
    /\ UnchangedImport

SlugifyAgain ==
    /\ probe.fn = "slugify" /\ probe.calls = 1
    /\ probe' = [probe EXCEPT !.calls = 2, !.s = probe.out,
                              !.out = slugify(probe.out, probe.lower)]
    /\ UnchangedImport

NextSlugify == Slugify \/ SlugifyAgain
SpecSlugify == InitSlugify /\ [][NextSlugify]_vars

\* month2number(month) is called.
InitMonth ==
    InitHelper({[fn |-> "month2number", calls |-> 0, month |-> m, out |-> Returns(<<>>)] :
                   m \in SeqsUpTo(MonthChars, MaxMonthLen)})

Month2Number ==
    /\ probe.fn = "month2number" /\ probe.calls = 0
    /\ probe' = [probe EXCEPT !.calls = 1, !.out = month2number(probe.month)]
    /\ UnchangedImport

NextMonth == Month2Number
SpecMonth == InitMonth /\ [][NextMonth]_vars

-----------------------------------------------------------------------------
(* Properties of the import                                                *)

EntryLocalErrors == {"TypeError", "KeyError"}

\* C1: a failure local to one entry (an unrecognized month, a missing title)
\* never aborts the batch: when import_bibtex is left through such a failure,
\* no entry of the file is left unprocessed.
C1_EntryFailureKeepsBatchGoing ==
    (status = "raised" /\ exc \in EntryLocalErrors) => entries = <<>>

DefinesPublishDate(files, path) ==
    IsFile(files, path, "index.md") /\ "publishDate" \in DOMAIN files[path]["index.md"]
PublishDateOf(files, path) == files[path]["index.md"]["publishDate"]

\* C2: once the document of a bundle on disk defines publishDate, every later
\* step leaves publishDate of that bundle at exactly that value.
C2_PublishDateNeverReplaced ==
    [][\A p \in DOMAIN fs :
          DefinesPublishDate(fs, p) =>
             /\ DefinesPublishDate(fs', p)
             /\ PublishDateOf(fs', p) = PublishDateOf(fs, p)]_vars

\* C3: a parse_bibtex_entry call without overwrite on an entry whose bundle
\* directory exists skips the entry, raises nothing and leaves the content
\* directory as it is; so throughout an import without overwrite every bundle
\* that existed when the import began is what it was then.
C3_SkipTouchesNothing ==
    [][/\ ( /\ status = "running" /\ entries # <<>> /\ clock' = clock + 1
            /\ ~args.overwrite
            /\ BundlePath(Head(entries), args) \in DOMAIN fs )
          => (fs' = fs /\ result'.kind = "skipped" /\ status' = "running")
       /\ (status' # "idle" /\ ~args'.overwrite)
          => \A p \in DOMAIN fs0' : p \in DOMAIN fs' /\ fs'[p] = fs0'[p]]_vars

\* C3 witness: an import without overwrite has skipped an entry whose bundle
\* an earlier import of the same entry wrote, and has returned.
C3_Witness ==
    /\ status = "returned" /\ ~args.overwrite /\ ~args.dry_run
    /\ result.kind = "skipped"
    /\ IsFile(fs, result.path, "index.md")
    /\ IsFile(fs, result.path, "cite.bib")
    /\ fs[result.path]["cite.bib"] = result.entry

DocumentKeys == {"title", "date", "publishDate", "publication_types", "abstract",
                 "featured", "publication"}

-----------------------------------------------------------------------------
(* Properties of the fields of the document                                *)

TrueValue == <<"t", "r", "u", "e">>
FalseValue == <<"f", "a", "l", "s", "e">>

\* The featured value the options decide, None if they decide nothing: the
\* first option that is `featured` or has the trimmed key `featured` wins.
RECURSIVE FeaturedOption(_, _)
FeaturedOption(options, i) ==
    IF i > Len(options) THEN "None"
    ELSE LET option == options[i]
             eq == CHOOSE j \in 1..Len(option) :
                      option[j] = "=" /\ \A h \in 1..(j - 1) : option[h] # "="
             key == Strip(SubSeq(option, 1, eq - 1))
             val == Strip(SubSeq(option, eq + 1, Len(option)))
         IN  IF ~Contains(option, "=")
             THEN IF Strip(option) = FeaturedKey THEN "True"
                  ELSE FeaturedOption(options, i + 1)
             ELSE IF key # FeaturedKey THEN FeaturedOption(options, i + 1)
             ELSE IF val = TrueValue THEN "True"
             ELSE IF val = FalseValue THEN "False"
             ELSE "Other"

OneEqualsAtMost(options) == \A i \in 1..Len(options) : Len(Split(options[i], "=")) <= 2

\* C5: an option featured=true gives True and featured=false gives False,
\* whatever the caller's default; a bare option featured gives True; without
\* an options field or a featured option the caller's default stands.
C5_FeaturedParsedAsBoolean ==
    result.kind = "returned" =>
        LET options == IF Has(result.entry, "options")
                       THEN Split(result.entry["options"], ",") ELSE <<>>
            decided == FeaturedOption(options, 1)
        IN  OneEqualsAtMost(options) =>
               /\ decided = "True" => result.fm["featured"] = TRUE
               /\ decided = "False" => result.fm["featured"] = FALSE
               /\ decided = "None" => result.fm["featured"] = args.featured

\* The numeric code of the publication type of each entry-type keyword.
TypeCode(entrytype) ==
    IF entrytype \in {"conference", "inproceedings"} THEN 1
    ELSE IF entrytype = "article" THEN 2
    ELSE IF entrytype = "unpublished" THEN 3
    ELSE IF entrytype \in {"report", "techreport", "manual"} THEN 4
    ELSE IF entrytype = "book" THEN 5
    ELSE IF entrytype \in {"inbook", "incollection"} THEN 6
    ELSE IF entrytype \in {"thesis", "phdthesis", "mastersthesis"} THEN 7
    ELSE IF entrytype = "patent" THEN 8
    ELSE 0

\* C6: publication_types is the one-element list of the decimal string of the
\* code, 0 to 8, of the entry-type keyword; misc, proceedings and every
\* keyword outside the table give ["0"].
C6_PublicationTypeIsCode ==
    result.kind = "returned" =>
        result.fm["publication_types"] = <<Str(TypeCode(result.entry["ENTRYTYPE"]))>>

\* C7: slugify(slugify(x)) = slugify(x), for both settings of lower.
C7_SlugifyIdempotent ==
    (probe.fn = "slugify" /\ probe.calls = 2) => probe.out = probe.s

TwoDigits(s) == Len(s) = 2 /\ IsDigit(s[1]) /\ IsDigit(s[2])

\* C8: when the year of a record resolves to a non-empty string, the date of
\* its document is the year, "-", two digits, "-", two digits.
C8_DateWellFormed ==
    (result.kind = "returned" /\ EntryDate(result.entry).value.year # <<>>) =>
        LET year == EntryDate(result.entry).value.year
            date == result.fm["date"]
            n == Len(date)
        IN  /\ n = Len(year) + 6
            /\ SubSeq(date, 1, Len(year)) = year
            /\ date[n - 5] = "-" /\ TwoDigits(SubSeq(date, n - 4, n - 3))
            /\ date[n - 2] = "-" /\ TwoDigits(SubSeq(date, n - 1, n))

MonthNames == <<<<"J", "a", "n">>, <<"F", "e", "b">>, <<"M", "a", "r">>,
                <<"A", "p", "r">>, <<"M", "a", "y">>, <<"J", "u", "n">>,
                <<"J", "u", "l">>, <<"A", "u", "g">>, <<"S", "e", "p">>,
                <<"O", "c", "t">>, <<"N", "o", "v">>, <<"D", "e", "c">>>>

\* The mapping C9 describes, for an input of one character or more.
MonthReference(month) ==
    IF Len(month) <= 2 THEN Returns(Zfill(month, 2))
    ELSE LET abbr == Title(SubSeq(month, 1, 3))
         IN  IF \E i \in 1..12 : MonthNames[i] = abbr
             THEN Returns(Zfill(Str(CHOOSE i \in 1..12 : MonthNames[i] = abbr), 2))
             ELSE Raises("TypeError")

\* C9: month2number pads an input of 1-2 characters with zeros; of a longer
\* input it looks the title-cased first three characters up in Jan..Dec and
\* returns the padded index, and raises when they are not in the table.
C9_MonthAgreesWithReference ==
    (probe.fn = "month2number" /\ probe.calls = 1 /\ Len(probe.month) >= 1) =>
        probe.out = MonthReference(probe.month)

\* C10: when the date field has two or three parts, the month of the document
\* is the month part of the date field whatever the month field holds, and
\* the year field is used only for an empty year part.
C10_MonthFieldOnlyWithoutDateMonth ==
    (result.kind # "none" /\ result.exc # "OSError" /\ Has(result.entry, "date")
        /\ Len(Split(result.entry["date"], "-")) \in {2, 3}) =>
        LET parts == Split(result.entry["date"], "-")
            year == IF parts[1] # <<>> THEN parts[1]
                    ELSE IF Has(result.entry, "year") THEN result.entry["year"] ELSE <<>>
            day == IF Len(parts) = 3 THEN parts[3] ELSE <<"0", "1">>
        IN  /\ result.kind = "returned"
            /\ result.fm["date"] = Join(<<year, parts[2], day>>, "-")

-----------------------------------------------------------------------------
(* Write failures, the order of the options, the bundles of a batch        *)

\* C11: an I/O failure on a write of a bundle (the directory, cite.bib,
\* index.md) never leaves parse_bibtex_entry, so it never ends the batch.
C11_WriteFailureNotPropagated ==
    result.kind = "raised" => result.exc # "OSError"

\* The trimmed key of an option: what precedes its first "=", or all of it.
OptionKey(option) ==
    IF Contains(option, "=")
    THEN Strip(SubSeq(option, 1,
             (CHOOSE j \in 1..Len(option) :
                 option[j] = "=" /\ \A h \in 1..(j - 1) : option[h] # "=") - 1))
    ELSE Strip(option)

\* C12: the first option whose trimmed key is `featured` decides: the
\* document's featured value is the one the options give once every option
\* before that one is dropped, whatever those earlier options hold.
C12_FirstFeaturedOptionDecides ==
    (result.kind = "returned" /\ Has(result.entry, "options")) =>
        LET options == Split(result.entry["options"], ",")
            hits == {i \in 1..Len(options) : OptionKey(options[i]) = FeaturedKey}
            first == CHOOSE i \in hits : \A j \in hits : i <= j
        IN  hits # {} =>
               result.fm["featured"] =
                  ScanOptions(SubSeq(options, first, Len(options)), 1, args.featured)

ParseStep == status = "running" /\ entries # <<>> /\ clock' = clock + 1

SlugIn(files, p) == slugify(files[p]["cite.bib"]["ID"], TRUE)

====
